---- MODULE Spec2Model ----
(***************************************************************************)
(* NL2SQL agent strategies (orchestration/strategies) and the search tools *)
(* (tools/retrieval/vector_index_retrieval.py).                            *)
(*                                                                         *)
(* Spec     : a strategy object builds its agents (create_agents) and a    *)
(*            group chat runs over them under the strategy's round cap.    *)
(* FairSpec : Spec with the chat loop always making progress.              *)
(* ToolSpec : one invocation of vector_index_retrieve or cogmo_search,     *)
(*            statement by statement.                                      *)
(*                                                                         *)
(* Python strings are sequences of one-character strings.  An optional     *)
(* value (None, or a missing key read with .get) is the empty sequence     *)
(* <<>>, a present value v is <<v>>.                                       *)
(***************************************************************************)
EXTENDS Integers, Sequences, FiniteSets, TLC

VARIABLES
    \* ---- strategy and group chat
    strategy,             \* which strategy class was instantiated
    agent_configuration,  \* what create_agents returned (none before the call)
    registered,           \* register_function / register_for_* calls made so far
    chat,                 \* "idle", "running" or "ended"
    speaker,              \* name of the agent holding the turn
    rounds,               \* hand-offs made in the running chat
    last,                 \* the last hand-off: <<>> or <<[from, to, content, verdict]>>
    \* ---- search tool invocation
    tool,                 \* the function invoked
    env,                  \* the environment variables it reads
    pc,                   \* the statement about to run
    response,             \* the HTTP response received: <<>> or <<[status_code, json]>>
    i,                    \* index of the next document the for loop formats
    search_results,       \* the list search_results
    calls,                \* requests sent to external services, in order
    failedAt,             \* the step that raised: <<>> or <<step>>
    logged,               \* number of logging.error calls made
    sources               \* the returned string: <<>> or <<string>>

chatVars == <<strategy, agent_configuration, registered, chat, speaker, rounds, last>>
toolVars == <<tool, env, pc, response, i, search_results, calls, failedAt, logged, sources>>
vars == <<chatVars, toolVars>>

None == <<>>
Some(v) == <<v>>

-----------------------------------------------------------------------------
(* Bounds *)

\* A message content is the concatenation of at most MaxFrags fragments.
MaxFrags == 2

-----------------------------------------------------------------------------
(* Strings used by the termination predicates *)

TERMINATE == <<"T", "E", "R", "M", "I", "N", "A", "T", "E">>

\* `needle in haystack` of Python, on strings.
Contains(haystack, needle) ==
    \E k \in 0..(Len(haystack) - Len(needle)) :
        SubSeq(haystack, k + 1, k + Len(needle)) = needle

\* A variant that only accepts the whole content being the sentinel.
is_termination_msg_equal(msg) ==
    msg.content # None /\ msg.content[1] = TERMINATE

\* lambda msg: msg.get("content") is not None and "TERMINATE" in msg["content"]
is_termination_msg(msg) ==
    msg.content # None /\ Contains(msg.content[1], TERMINATE)

Fragments == { TERMINATE,
               <<"T", "E", "R", "M", "I", "N">>,
               <<"A", "T", "E">>,
               <<"x">> }

RECURSIVE Concats(_)
Concats(n) ==
    IF n = 0 THEN { <<>> }
    ELSE LET shorter == Concats(n - 1)
         IN  shorter \cup { s \o f : s \in shorter, f \in Fragments }

\* Messages an agent may receive: content None (or absent) or a string.
Messages == { [content |-> None] } \cup { [content |-> Some(s)] : s \in Concats(MaxFrags) }

-----------------------------------------------------------------------------
(* The two strategies *)

Strategies == { "nl2sql_advisor", "nl2sql_fewshot" }
LLMConfigs == { "gpt-4o", "gpt-35-turbo" }
Histories  == { <<>>, <<"earlier question">> }

\* A cap that is one round too long.
AdvisorMaxRoundsPlusOne == 30 + 1

AdvisorMaxRounds == 30
FewshotMaxRounds == 20

max_rounds(s) == IF s = "nl2sql_advisor" THEN AdvisorMaxRounds ELSE FewshotMaxRounds

\* UserProxyAgent(name="user", ..., is_termination_msg=lambda ...), both strategies
user_proxy ==
    [ name |-> "user", class |-> "UserProxyAgent",
      system_message |-> <<"user_proxy">>,
      llm_config |-> None,
      is_termination_msg |-> "contains_TERMINATE" ]

\* The advisor strategy's assistant, with the predicate left out.
advisor_assistant_no_predicate(llm_config, history) ==
    [ name |-> "assistant", class |-> "AssistantAgent",
      system_message |-> <<"nl2sql_assistant", history>>,
      llm_config |-> Some(llm_config),
      is_termination_msg |-> "not_given" ]

\* AssistantAgent(name="assistant", ..., is_termination_msg=lambda ...)
advisor_assistant(llm_config, history) ==
    [ name |-> "assistant", class |-> "AssistantAgent",
      system_message |-> <<"nl2sql_assistant", history>>,
      llm_config |-> Some(llm_config),
      is_termination_msg |-> "contains_TERMINATE" ]

\* AssistantAgent(name="advisor", ...): no is_termination_msg argument
advisor(llm_config) ==
    [ name |-> "advisor", class |-> "AssistantAgent",
      system_message |-> <<"advisor">>,
      llm_config |-> Some(llm_config),
      is_termination_msg |-> "not_given" ]

\* The few-shot strategy's AssistantAgent(name="assistant", ...): no
\* is_termination_msg argument
fewshot_assistant(llm_config, history) ==
    [ name |-> "assistant", class |-> "AssistantAgent",
      system_message |-> <<"nl2sql_assistant", history>>,
      llm_config |-> Some(llm_config),
      is_termination_msg |-> "not_given" ]

\* A table that lets the user hand off to the advisor directly.
allowed_transitions_user_to_advisor ==
    [ a \in { "advisor", "user", "assistant" } |->
        CASE a = "advisor"   -> <<"user", "assistant">>
          [] a = "user"      -> <<"assistant", "advisor">>
          [] a = "assistant" -> <<"advisor", "user">> ]

\* A table in which the assistant can only go to the advisor.
allowed_transitions_no_return ==
    [ a \in { "advisor", "user", "assistant" } |->
        CASE a = "advisor"   -> <<"user", "assistant">>
          [] a = "user"      -> <<"assistant">>
          [] a = "assistant" -> <<"advisor">> ]

\* A table that has no row for the advisor.
allowed_transitions_no_advisor_row ==
    [ a \in { "user", "assistant" } |->
        CASE a = "user"      -> <<"assistant">>
          [] a = "assistant" -> <<"advisor", "user">> ]

\* allowed_transitions = {advisor: [...], user_proxy: [...], assistant: [...]}
allowed_transitions ==
    [ a \in { "advisor", "user", "assistant" } |->
        CASE a = "advisor"   -> <<"user", "assistant">>
          [] a = "user"      -> <<"assistant">>
          [] a = "assistant" -> <<"advisor", "user">> ]

\* The functions the advisor strategy registers, in the order of the code.
advisor_registrations ==
    { [ name |-> "get_schema_info",     caller |-> "assistant", executor |-> "user" ],
      [ name |-> "get_all_tables_info", caller |-> "assistant", executor |-> "user" ],
      [ name |-> "execute_sql_query",   caller |-> "assistant", executor |-> "user" ],
      [ name |-> "validate_sql_query",  caller |-> "advisor",   executor |-> "user" ],
      [ name |-> "get_today_date",      caller |-> "assistant", executor |-> "user" ],
      [ name |-> "get_time",            caller |-> "assistant", executor |-> "user" ] }

\* The functions the few-shot strategy registers.
fewshot_registrations ==
    { [ name |-> "get_schema_info",       caller |-> "assistant", executor |-> "user" ],
      [ name |-> "get_all_tables_info",   caller |-> "assistant", executor |-> "user" ],
      [ name |-> "validate_sql_query",    caller |-> "assistant", executor |-> "user" ],
      [ name |-> "execute_sql_query",     caller |-> "assistant", executor |-> "user" ],
      [ name |-> "vector_index_retrieve", caller |-> "assistant", executor |-> "user" ] }

\* NL2SQLAdvisorStrategy.create_agents: returns a dict.
advisor_create_agents(llm_config, history) ==
    [ type  |-> "dict",
      value |-> [ agents |-> << user_proxy,
                                advisor_assistant(llm_config, history),
                                advisor(llm_config) >>,
                  transitions      |-> allowed_transitions,
                  transitions_type |-> "allowed" ] ]

\* NL2SQLSingleAgentFewshotCreationStrategy.create_agents: returns a list.
fewshot_create_agents(llm_config, history) ==
    [ type  |-> "list",
      value |-> << user_proxy, fewshot_assistant(llm_config, history) >> ]

NotCreated == [ type |-> "none" ]

-----------------------------------------------------------------------------
(* Reading what create_agents returned *)

\* The agent list of the returned value.
AgentsOf(conf) ==
    CASE conf.type = "dict" -> conf.value.agents
      [] conf.type = "list" -> conf.value
      [] OTHER              -> <<>>

Range(seq) == { seq[k] : k \in DOMAIN seq }

AgentNames(conf) == { a.name : a \in Range(AgentsOf(conf)) }

AgentNamed(conf, n) == CHOOSE a \in Range(AgentsOf(conf)) : a.name = n

HasTransitions(conf) == conf.type = "dict" /\ "transitions" \in DOMAIN conf.value

\* The agents that may speak after `from`.  With a table of allowed
\* transitions, the row of `from`; with no table, the chat does not restrict
\* the next speaker.
NextSpeakers(conf, from) ==
    IF HasTransitions(conf)
    THEN IF from \in DOMAIN conf.value.transitions
         THEN Range(conf.value.transitions[from])
         ELSE {}
    ELSE AgentNames(conf)

\* The verdicts an agent can give on a received message.  An agent built
\* with the lambda gives the lambda's value.  An agent built without
\* is_termination_msg is judged by the framework's default, which this
\* repository does not define: either verdict.
TerminationVerdicts(agent, msg) ==
    IF agent.is_termination_msg = "contains_TERMINATE"
    THEN { is_termination_msg(msg) }
    ELSE BOOLEAN

-----------------------------------------------------------------------------
(* Strategy and chat actions *)

ToolIdle ==
    /\ tool = "none"
    /\ env = [ AZURE_SEARCH_TOP_K |-> None, AZURE_SEARCH_APPROACH |-> None ]
    /\ pc = "idle"
    /\ response = None
    /\ i = 1
    /\ search_results = <<>>
    /\ calls = <<>>
    /\ failedAt = None
    /\ logged = 0
    /\ sources = None

\* A strategy object right after __init__.
Init ==
    /\ strategy \in Strategies
    /\ agent_configuration = NotCreated
    /\ registered = {}
    /\ chat = "idle"
    /\ speaker = "user"
    /\ rounds = 0
    /\ last = None
    /\ ToolIdle

\* strategy.create_agents(llm_config, history)
CreateAgents(llm_config, history) ==
    /\ agent_configuration = NotCreated
    /\ agent_configuration' =
           IF strategy = "nl2sql_advisor"
           THEN advisor_create_agents(llm_config, history)
           ELSE fewshot_create_agents(llm_config, history)
    /\ registered' =
           IF strategy = "nl2sql_advisor"
           THEN advisor_registrations
           ELSE fewshot_registrations
    /\ UNCHANGED <<strategy, chat, speaker, rounds, last>>
    /\ UNCHANGED toolVars

\* The group chat is started by the user proxy.
StartChat ==
    /\ agent_configuration # NotCreated
    /\ chat = "idle"
    /\ chat' = "running"
    /\ speaker' = "user"
    /\ rounds' = 0
    /\ UNCHANGED <<strategy, agent_configuration, registered, last>>
    /\ UNCHANGED toolVars

\* The speaker sends msg and the turn passes to `next`, who judges whether
\* msg ends the conversation.
HandOff(next, msg) ==
    /\ chat = "running"
    /\ rounds < max_rounds(strategy)
    /\ next \in NextSpeakers(agent_configuration, speaker)
    /\ \E verdict \in TerminationVerdicts(AgentNamed(agent_configuration, next), msg) :
          /\ last' = Some([ from |-> speaker, to |-> next,
                            content |-> msg.content, verdict |-> verdict ])
          /\ chat' = IF verdict THEN "ended" ELSE "running"
    /\ speaker' = next
    /\ rounds' = rounds + 1
    /\ UNCHANGED <<strategy, agent_configuration, registered>>
    /\ UNCHANGED toolVars

\* The round cap is reached: the chat stops.
RoundCap ==
    /\ chat = "running"
    /\ rounds >= max_rounds(strategy)
    /\ chat' = "ended"
    /\ UNCHANGED <<strategy, agent_configuration, registered, speaker, rounds, last>>
    /\ UNCHANGED toolVars

Next ==
    \/ \E llm_config \in LLMConfigs, history \in Histories : CreateAgents(llm_config, history)
    \/ StartChat
    \/ \E next \in { "user", "assistant", "advisor" }, msg \in Messages : HandOff(next, msg)
    \/ RoundCap

Spec == Init /\ [][Next]_vars

FairSpec == Init /\ [][Next]_vars /\ WF_vars(Next)

-----------------------------------------------------------------------------
(* Properties of the strategies and the chat *)

Created == agent_configuration # NotCreated

AdvisorEdges ==
    { <<"user", "assistant">>,
      <<"assistant", "advisor">>, <<"assistant", "user">>,
      <<"advisor", "user">>, <<"advisor", "assistant">> }

\* C1: the advisor strategy returns exactly the table user -> {assistant},
\* assistant -> {advisor, user}, advisor -> {user, assistant}, marked
\* "allowed", and every hand-off of a chat that follows it is one of these
\* five edges (never user -> advisor, never an agent to itself).
C1_AdvisorTable ==
    (strategy = "nl2sql_advisor" /\ Created) =>
        /\ agent_configuration.type = "dict"
        /\ agent_configuration.value.transitions_type = "allowed"
        /\ LET t == agent_configuration.value.transitions
           IN  /\ DOMAIN t = { "user", "assistant", "advisor" }
               /\ { <<a, b>> \in (DOMAIN t) \X { "user", "assistant", "advisor" } :
                        b \in Range(t[a]) } = AdvisorEdges
        /\ last # None =>
               /\ <<last[1].from, last[1].to>> \in AdvisorEdges
               /\ last[1].from # last[1].to
               /\ ~(last[1].from = "user" /\ last[1].to = "advisor")

C1_Witness ==
    /\ strategy = "nl2sql_advisor"
    /\ last # None
    /\ last[1].from = "advisor"
    /\ last[1].to = "assistant"
    /\ rounds >= 3

\* C2: the round cap is 30 for the advisor strategy and 20 for the few-shot
\* strategy; whatever the agents choose, a chat never makes more hand-offs
\* than the cap and always ends.
C2_RoundCapEndsChat ==
    /\ [](rounds <= (IF strategy = "nl2sql_advisor" THEN 30 ELSE 20))
    /\ [](max_rounds(strategy) = (IF strategy = "nl2sql_advisor" THEN 30 ELSE 20))
    /\ <>(chat = "ended")

C2_Witness ==
    /\ strategy = "nl2sql_advisor"
    /\ chat = "ended"
    /\ rounds = 30
    /\ last # None
    /\ last[1].verdict = FALSE

\* C3 as stated: for both strategies create_agents returns the agent set
\* and a transition table with a row for each agent of the set.
C3_BothReturnTable ==
    Created =>
        /\ AgentNames(agent_configuration) # {}
        /\ HasTransitions(agent_configuration)
        /\ DOMAIN agent_configuration.value.transitions = AgentNames(agent_configuration)

\* C3 amended: the advisor strategy returns the agents user, assistant and
\* advisor together with a table that has a row for each of them, every row
\* naming agents of the set; the few-shot strategy returns only the list of
\* its agents user and assistant, and no transition table.  The assistants
\* carry the LLM configuration given.
C3_AgentSetAndTable ==
    Created =>
        /\ strategy = "nl2sql_advisor" =>
               /\ agent_configuration.type = "dict"
               /\ [ k \in 1..3 |-> agent_configuration.value.agents[k].name ]
                      = <<"user", "assistant", "advisor">>
               /\ Len(agent_configuration.value.agents) = 3
               /\ DOMAIN agent_configuration.value.transitions = AgentNames(agent_configuration)
               /\ \A a \in AgentNames(agent_configuration) :
                      Range(agent_configuration.value.transitions[a])
                          \subseteq AgentNames(agent_configuration)
        /\ strategy = "nl2sql_fewshot" =>
               /\ agent_configuration.type = "list"
               /\ Len(agent_configuration.value) = 2
               /\ agent_configuration.value[1].name = "user"
               /\ agent_configuration.value[2].name = "assistant"
               /\ ~HasTransitions(agent_configuration)
        /\ \E c \in LLMConfigs :
               \A a \in Range(AgentsOf(agent_configuration)) :
                   a.class = "AssistantAgent" => a.llm_config = Some(c)

C3_Witness ==
    /\ strategy = "nl2sql_fewshot"
    /\ Created
    /\ AgentNamed(agent_configuration, "assistant").llm_config = Some("gpt-35-turbo")
    /\ AgentNamed(agent_configuration, "assistant").system_message[2] # <<>>
    /\ chat = "running"

\* content holds the sentinel at some position, character by character.
HoldsSentinel(content) ==
    \E a \in 1..Len(content) :
        \A j \in 1..9 :
            /\ a + j - 1 <= Len(content)
            /\ content[a + j - 1] = <<"T", "E", "R", "M", "I", "N", "A", "T", "E">>[j]

VerdictIsContains ==
    last # None =>
        (last[1].verdict <=> (last[1].content # None /\ HoldsSentinel(last[1].content[1])))

\* C9 as stated: every agent of either strategy has the contains-"TERMINATE"
\* predicate, so a message ends the conversation iff its content is not
\* null and contains "TERMINATE".
C9_EveryAgentContains ==
    /\ \A a \in Range(AgentsOf(agent_configuration)) :
           a.is_termination_msg = "contains_TERMINATE"
    /\ VerdictIsContains

\* C9 amended: the user agent of both strategies and the assistant of the
\* advisor strategy are built with the predicate "content is not null and
\* contains TERMINATE", and a message they receive ends the conversation
\* iff that holds (a null content never does); the advisor agent and the
\* few-shot assistant are built without a termination predicate.
C9_ConfiguredAgentsContain ==
    /\ \A a \in Range(AgentsOf(agent_configuration)) :
           a.is_termination_msg =
               (IF a.name = "user" \/ (a.name = "assistant" /\ strategy = "nl2sql_advisor")
                THEN "contains_TERMINATE" ELSE "not_given")
    /\ (/\ last # None
        /\ \/ last[1].to = "user"
           \/ (last[1].to = "assistant" /\ strategy = "nl2sql_advisor"))
       => VerdictIsContains

C9_Witness ==
    /\ strategy = "nl2sql_advisor"
    /\ last # None
    /\ last[1].to = "assistant"
    /\ last[1].verdict
    /\ last[1].content # None
    /\ Len(last[1].content[1]) > 9

\* The agents reachable from `from` in at most n hand-offs.
RECURSIVE ReachIn(_, _, _)
ReachIn(conf, from, n) ==
    IF n = 0 THEN { from }
    ELSE LET near == ReachIn(conf, from, n - 1)
         IN  near \cup UNION { NextSpeakers(conf, a) : a \in near }

\* C10: in the advisor strategy every registered tool is executed by the
\* user agent, the callers are the assistant (get_schema_info,
\* get_all_tables_info, execute_sql_query, get_today_date, get_time) and the
\* advisor (validate_sql_query), every caller may hand off to the user,
\* every agent has an allowed successor and every agent is reachable from
\* every other agent.
C10_ToolCallsSupported ==
    (strategy = "nl2sql_advisor" /\ Created) =>
        LET names == AgentNames(agent_configuration)
        IN  /\ { r.name : r \in registered } =
                   { "get_schema_info", "get_all_tables_info", "execute_sql_query",
                     "get_today_date", "get_time", "validate_sql_query" }
            /\ \A r \in registered :
                   /\ r.executor = "user"
                   /\ r.caller = (IF r.name = "validate_sql_query"
                                  THEN "advisor" ELSE "assistant")
                   /\ "user" \in NextSpeakers(agent_configuration, r.caller)
            /\ \A a \in names : NextSpeakers(agent_configuration, a) # {}
            /\ \A a \in names :
                   names \subseteq ReachIn(agent_configuration, a, Cardinality(names))
            /\ (chat = "running" /\ rounds < max_rounds(strategy)) =>
                   NextSpeakers(agent_configuration, speaker) # {}

C10_Witness ==
    /\ strategy = "nl2sql_advisor"
    /\ last # None
    /\ last[1].from = "advisor"
    /\ last[1].to = "user"
    /\ chat = "running"

-----------------------------------------------------------------------------
(* The search tools: strings *)

\* The search service answers with at most MaxDocs documents.
MaxDocs == 3

Whitespace == { " ", "\n", "\t" }

RECURSIVE lstrip(_)
lstrip(s) == IF s # <<>> /\ Head(s) \in Whitespace THEN lstrip(Tail(s)) ELSE s

RECURSIVE rstrip(_)
rstrip(s) ==
    IF s # <<>> /\ s[Len(s)] \in Whitespace THEN rstrip(SubSeq(s, 1, Len(s) - 1)) ELSE s

\* str.strip()
strip(s) == rstrip(lstrip(s))

\* sep.join(list)
RECURSIVE join(_, _)
join(sep, list) ==
    IF list = <<>> THEN <<>>
    ELSE IF Len(list) = 1 THEN list[1]
    ELSE list[1] \o sep \o join(sep, Tail(list))

\* An entry that keeps the content as received.
format_entry_unstripped(key, text) == key \o <<":", " ">> \o text \o <<"\n">>

\* doc['filepath'] + ": " + doc['content'].strip() + "\n"
\* doc['title'] + ": " + doc['highlighting'].strip() + "\n"
format_entry(key, text) == key \o <<":", " ">> \o strip(text) \o <<"\n">>

DigitValue(c) ==
    CASE c = "0" -> 0 [] c = "1" -> 1 [] c = "2" -> 2 [] c = "3" -> 3 [] c = "4" -> 4
      [] c = "5" -> 5 [] c = "6" -> 6 [] c = "7" -> 7 [] c = "8" -> 8 [] c = "9" -> 9

Digits == { "0", "1", "2", "3", "4", "5", "6", "7", "8", "9" }

RECURSIVE DecimalValue(_)
DecimalValue(s) ==
    IF s = <<>> THEN 0
    ELSE 10 * DecimalValue(SubSeq(s, 1, Len(s) - 1)) + DigitValue(s[Len(s)])

\* int(v): v is an int already, or a string.  None when int() raises
\* ValueError, else the value.
int(v) ==
    IF v.type = "int" THEN Some(v.val)
    ELSE IF v.val # <<>> /\ \A k \in DOMAIN v.val : v.val[k] \in Digits
         THEN Some(DecimalValue(v.val))
         ELSE None

\* os.getenv(name, default): the variable's string when set, else default.
getenv(name, default) ==
    IF env[name] = None THEN default ELSE [ type |-> "str", val |-> env[name][1] ]

\* search_top_k = os.getenv('AZURE_SEARCH_TOP_K', 3)
search_top_k == getenv("AZURE_SEARCH_TOP_K", [ type |-> "int", val |-> 3 ])

\* search_approach = os.getenv('AZURE_SEARCH_APPROACH', 'hybrid')
search_approach == getenv("AZURE_SEARCH_APPROACH", [ type |-> "str", val |-> "hybrid" ]).val

-----------------------------------------------------------------------------
(* The search tools: inputs *)

Tools == { "vector_index_retrieve", "cogmo_search" }

Envs ==
    [ AZURE_SEARCH_TOP_K    : { None, Some(<<"2">>), Some(<<"a", "b", "c">>) },
      AZURE_SEARCH_APPROACH : { None, Some("term"), Some("vector") } ]

\* Documents of the Azure AI Search index; the last two lack a field.
VectorDocs ==
    { [ filepath |-> <<"f">>, content |-> <<" ", "x", " ">> ],
      [ filepath |-> <<"g">>, content |-> <<"y", " ", "z", "\n">> ],
      [ filepath |-> <<"g">> ],
      [ content |-> <<"x">> ] }

\* Documents of the cogmo collection; the last lacks a field.
CogmoDocs ==
    { [ title |-> <<"t">>, highlighting |-> <<"\t", "h">> ],
      [ title |-> <<"u">>, highlighting |-> <<"k", " ">> ],
      [ title |-> <<"t">> ] }

RECURSIVE Lists(_, _)
Lists(S, n) ==
    IF n = 0 THEN { <<>> }
    ELSE LET shorter == Lists(S, n - 1)
         IN  shorter \cup { Append(l, d) : l \in shorter, d \in S }

\* What response.json() gives: it raises (ok false), or a body that holds
\* the document list under its key, or a body without that key.
JsonBodies(t) ==
    IF t = "vector_index_retrieve"
    THEN { [ ok |-> FALSE ], [ ok |-> TRUE, body |-> [ error |-> "e" ] ] }
         \cup { [ ok |-> TRUE, body |-> [ value |-> l ] ] : l \in Lists(VectorDocs, MaxDocs) }
    ELSE { [ ok |-> FALSE ], [ ok |-> TRUE, body |-> [ error |-> "e" ] ] }
         \cup { [ ok |-> TRUE, body |-> [ response |-> [ docs |-> l ] ] ] :
                    l \in Lists(CogmoDocs, MaxDocs) }

StatusCodes == { 200, 399, 400, 500 }

Responses(t) == [ status_code : StatusCodes, json : JsonBodies(t) ]

-----------------------------------------------------------------------------
(* The search tools: reading the response *)

\* A reading of the status that lets 400 through.
is_error_status_above_400(status_code) == status_code > 400

\* if status_code >= 400
is_error_status(status_code) == status_code >= 400

\* The key of the document list is in the parsed body.
HasDocs(t, json) ==
    IF t = "vector_index_retrieve"
    THEN "value" \in DOMAIN json.body
    ELSE "response" \in DOMAIN json.body

\* json['value'] ; json['response']['docs']
DocsOf(t, json) ==
    IF t = "vector_index_retrieve" THEN json.body.value ELSE json.body.response.docs

Min(a, b) == IF a <= b THEN a ELSE b

\* The list the for loop runs over: json['value'], or
\* json['response']['docs'][0:int(search_top_k)] (k is int(search_top_k) >= 0).
Iterated(t, json, k) ==
    IF t = "vector_index_retrieve"
    THEN DocsOf(t, json)
    ELSE SubSeq(DocsOf(t, json), 1, Min(k, Len(DocsOf(t, json))))

KeyField(t)  == IF t = "vector_index_retrieve" THEN "filepath" ELSE "title"
TextField(t) == IF t = "vector_index_retrieve" THEN "content" ELSE "highlighting"

WellFormed(t, doc) == KeyField(t) \in DOMAIN doc /\ TextField(t) \in DOMAIN doc

-----------------------------------------------------------------------------
(* The search tools: one invocation, statement by statement *)

ChatIdle ==
    /\ strategy = "none"
    /\ agent_configuration = NotCreated
    /\ registered = {}
    /\ chat = "idle"
    /\ speaker = "user"
    /\ rounds = 0
    /\ last = None

ToolInit ==
    /\ ChatIdle
    /\ tool \in Tools
    /\ env \in Envs
    /\ pc = (IF tool = "vector_index_retrieve" THEN "client" ELSE "get")
    /\ response = None
    /\ i = 1
    /\ search_results = <<>>
    /\ calls = <<>>
    /\ failedAt = None
    /\ logged = 0
    /\ sources = None

\* A handler that runs the failed statement again.
except_retry(step) ==
    /\ failedAt' = Some(step)
    /\ logged' = logged + 1
    /\ pc' = step

\* except Exception as e: logging.error(...); control continues at the join.
except(step) ==
    /\ failedAt' = Some(step)
    /\ logged' = logged + 1
    /\ pc' = "join"

\* aoai = AzureOpenAIClient(): before the try block
Client ==
    /\ pc = "client"
    /\ \/ /\ pc' = "credential"
          /\ UNCHANGED failedAt
       \/ /\ pc' = "raised"
          /\ failedAt' = Some("client")
    /\ UNCHANGED <<tool, env, response, i, search_results, calls, logged, sources>>
    /\ UNCHANGED chatVars

\* credential = DefaultAzureCredential()
Credential ==
    /\ pc = "credential"
    /\ \/ /\ pc' = "embeddings"
          /\ UNCHANGED <<failedAt, logged>>
       \/ except("credential")
    /\ UNCHANGED <<tool, env, response, i, search_results, calls, sources>>
    /\ UNCHANGED chatVars

\* embeddings_query = aoai.get_embeddings(search_query)
Embeddings ==
    /\ pc = "embeddings"
    /\ calls' = Append(calls, "embeddings")
    /\ \/ /\ pc' = "token"
          /\ UNCHANGED <<failedAt, logged>>
       \/ except("embeddings")
    /\ UNCHANGED <<tool, env, response, i, search_results, sources>>
    /\ UNCHANGED chatVars

\* azureSearchKey = credential.get_token("https://search.azure.com/.default")
Token ==
    /\ pc = "token"
    /\ calls' = Append(calls, "token")
    /\ \/ /\ pc' = "body"
          /\ UNCHANGED <<failedAt, logged>>
       \/ except("token")
    /\ UNCHANGED <<tool, env, response, i, search_results, sources>>
    /\ UNCHANGED chatVars

\* body = {...}: the vector and hybrid approaches evaluate int(search_top_k)
Body ==
    /\ pc = "body"
    /\ IF search_approach \in { "vector", "hybrid" } /\ int(search_top_k) = None
       THEN except("body")
       ELSE /\ pc' = "post"
            /\ UNCHANGED <<failedAt, logged>>
    /\ UNCHANGED <<tool, env, response, i, search_results, calls, sources>>
    /\ UNCHANGED chatVars

\* response = requests.post(search_endpoint, headers=headers, json=body)
Post ==
    /\ pc = "post"
    /\ calls' = Append(calls, "search")
    /\ \/ \E r \in Responses(tool) :
             /\ response' = Some(r)
             /\ pc' = "json"
             /\ UNCHANGED <<failedAt, logged>>
       \/ /\ except("post")
          /\ UNCHANGED response
    /\ UNCHANGED <<tool, env, i, search_results, sources>>
    /\ UNCHANGED chatVars

\* response = requests.get(search_endpoint, params={"query": search_query})
Get ==
    /\ pc = "get"
    /\ calls' = Append(calls, "search")
    /\ \/ \E r \in Responses(tool) :
             /\ response' = Some(r)
             /\ pc' = "json"
             /\ UNCHANGED <<failedAt, logged>>
       \/ /\ except("get")
          /\ UNCHANGED response
    /\ UNCHANGED <<tool, env, i, search_results, sources>>
    /\ UNCHANGED chatVars

\* status_code = response.status_code; text = response.text; json = response.json()
Json ==
    /\ pc = "json"
    /\ IF response[1].json.ok
       THEN /\ pc' = "status"
            /\ UNCHANGED <<failedAt, logged>>
       ELSE except("json")
    /\ UNCHANGED <<tool, env, response, i, search_results, calls, sources>>
    /\ UNCHANGED chatVars

\* if status_code >= 400: log the error.  else: if the document list is not
\* empty, enter the for loop over it.
Status ==
    /\ pc = "status"
    /\ LET r == response[1] IN
       IF is_error_status(r.status_code)
       THEN /\ logged' = logged + 1
            /\ pc' = "join"
            /\ UNCHANGED failedAt
       ELSE IF ~HasDocs(tool, r.json)
       THEN except("status")
       ELSE IF DocsOf(tool, r.json) = <<>>
       THEN /\ pc' = "join"
            /\ UNCHANGED <<failedAt, logged>>
       ELSE IF tool = "cogmo_search" /\ int(search_top_k) = None
       THEN except("status")
       ELSE /\ pc' = IF Iterated(tool, r.json, int(search_top_k)[1]) = <<>>
                     THEN "join" ELSE "format"
            /\ UNCHANGED <<failedAt, logged>>
    /\ i' = 1
    /\ UNCHANGED <<tool, env, response, search_results, calls, sources>>
    /\ UNCHANGED chatVars

\* One iteration of the for loop: search_results.append(...)
Format ==
    /\ pc = "format"
    /\ LET docs == Iterated(tool, response[1].json, int(search_top_k)[1])
           doc  == docs[i]
       IN  IF WellFormed(tool, doc)
           THEN /\ search_results' =
                       Append(search_results,
                              format_entry(doc[KeyField(tool)], doc[TextField(tool)]))
                /\ i' = i + 1
                /\ pc' = IF i + 1 > Len(docs) THEN "join" ELSE "format"
                /\ UNCHANGED <<failedAt, logged>>
           ELSE /\ except("format")
                /\ UNCHANGED <<search_results, i>>
    /\ UNCHANGED <<tool, env, response, calls, sources>>
    /\ UNCHANGED chatVars

\* sources = ' '.join(search_results); return sources
Join ==
    /\ pc = "join"
    /\ sources' = Some(join(<<" ">>, search_results))
    /\ pc' = "returned"
    /\ UNCHANGED <<tool, env, response, i, search_results, calls, failedAt, logged>>
    /\ UNCHANGED chatVars

ToolNext ==
    \/ Client
    \/ Credential
    \/ Embeddings
    \/ Token
    \/ Body
    \/ Post
    \/ Get
    \/ Json
    \/ Status
    \/ Format
    \/ Join

ToolSpec == ToolInit /\ [][ToolNext]_vars

-----------------------------------------------------------------------------
(* Properties of the search tools *)

Returned == pc = "returned"

EmptyString == Some(<<>>)

\* C4: a failed search call returns "" and does not raise: when the HTTP
\* request raises, when the body cannot be parsed as JSON, or when the
\* status code is 400 or more, the tool returns the empty string.
C4_FailedSearchReturnsEmpty ==
    /\ (\/ failedAt \in { Some("post"), Some("get"), Some("json") }
        \/ (response # None /\ response[1].status_code >= 400))
       => /\ pc # "raised"
          /\ search_results = <<>>
          /\ Returned => sources = EmptyString
    /\ Returned => sources # None

C4_Witness ==
    /\ Returned
    /\ failedAt = None
    /\ response # None
    /\ response[1].status_code = 400
    /\ response[1].json.ok
    /\ HasDocs(tool, response[1].json)
    /\ DocsOf(tool, response[1].json) # <<>>
    /\ \A k \in DOMAIN DocsOf(tool, response[1].json) :
           WellFormed(tool, DocsOf(tool, response[1].json)[k])
    /\ sources = EmptyString

\* C5: every step of vector_index_retrieve that can fail (constructing the
\* embeddings client included) is caught: the failure is logged and the
\* function returns a string, nothing is raised to the caller.
C5_EveryFailureCaught ==
    (tool = "vector_index_retrieve" /\ failedAt # None) =>
        /\ pc # "raised"
        /\ logged >= 1
        /\ pc \in { "join", "returned" }

\* The text between the first and the last character of s that is not
\* whitespace.
Trimmed(s) ==
    LET inner == { k \in DOMAIN s : s[k] \notin Whitespace }
    IN  IF inner = {} THEN <<>>
        ELSE SubSeq(s, CHOOSE a \in inner : \A k \in inner : a <= k,
                       CHOOSE b \in inner : \A k \in inner : b >= k)

\* The n-th entry expected for the documents received.
ExpectedEntry(docs, n) ==
    docs[n].filepath \o <<":", " ">> \o Trimmed(docs[n].content) \o <<"\n">>

\* text is the expected entries of docs[n..] with one space between two.
RECURSIVE IsEntriesFrom(_, _, _)
IsEntriesFrom(text, docs, n) ==
    IF n > Len(docs) THEN text = <<>>
    ELSE LET e == ExpectedEntry(docs, n)
         IN  /\ Len(text) >= Len(e)
             /\ SubSeq(text, 1, Len(e)) = e
             /\ IF n = Len(docs)
                THEN Len(text) = Len(e)
                ELSE /\ Len(text) > Len(e)
                     /\ text[Len(e) + 1] = " "
                     /\ IsEntriesFrom(SubSeq(text, Len(e) + 2, Len(text)), docs, n + 1)

SuccessfulVectorSearch ==
    /\ tool = "vector_index_retrieve"
    /\ Returned
    /\ failedAt = None
    /\ response # None
    /\ response[1].status_code < 400
    /\ response[1].json.ok
    /\ HasDocs(tool, response[1].json)
    /\ \A k \in DOMAIN DocsOf(tool, response[1].json) :
           WellFormed(tool, DocsOf(tool, response[1].json)[k])

\* C6: on a status below 400 with n well-formed documents,
\* vector_index_retrieve returns the n entries
\* "<filepath>: <content stripped>\n", one per document in the order
\* received, joined by a single space; no documents gives "".
C6_EntriesInReceivedOrder ==
    SuccessfulVectorSearch =>
        /\ Len(search_results) = Len(DocsOf(tool, response[1].json))
        /\ IsEntriesFrom(sources[1], DocsOf(tool, response[1].json), 1)
        /\ DocsOf(tool, response[1].json) = <<>> => sources = EmptyString

C6_Witness ==
    /\ SuccessfulVectorSearch
    /\ Len(DocsOf(tool, response[1].json)) >= 2
    /\ DocsOf(tool, response[1].json)[1].filepath = <<"g">>
    /\ DocsOf(tool, response[1].json)[2].filepath = <<"f">>

\* C7 as stated: one invocation sends at most one request to an external
\* service.
C7_AtMostOneRequest ==
    Len(calls) <= 1

\* C7 amended: no request is sent twice in one invocation (nothing is
\* retried, whether the request succeeds or fails) and the search request
\* is sent at most once; cogmo_search sends at most that one request, while
\* vector_index_retrieve first asks the embeddings service and then the
\* token service, once each, so it sends up to three requests.
C7_EachRequestAtMostOnce ==
    /\ \A a, b \in DOMAIN calls : calls[a] = calls[b] => a = b
    /\ tool = "cogmo_search" => calls \in { <<>>, <<"search">> }
    /\ tool = "vector_index_retrieve" =>
           calls \in { <<>>, <<"embeddings">>, <<"embeddings", "token">>,
                       <<"embeddings", "token", "search">> }

C7_Witness ==
    /\ tool = "vector_index_retrieve"
    /\ Returned
    /\ failedAt = Some("post")
    /\ calls = <<"embeddings", "token", "search">>

\* C8: when formatting the received documents raises (a document lacks a
\* required field), the tool returns the empty string and not the entries
\* formatted before the failure.
C8_FormatFailureReturnsEmpty ==
    (Returned /\ failedAt = Some("format")) => sources = EmptyString

====
